---- MODULE Spec2Model ----
(***************************************************************************)
(* Model of the kairos dashboard (src/clock.go, the configurable variant   *)
(* of lines 423-1111): the grid layout, the swap key handlers, the         *)
(* notification timer, the stats worker and the gocui main loop that       *)
(* serialises key handlers and layout passes.                              *)
(***************************************************************************)
EXTENDS Integers, Sequences, FiniteSets, TLC

VARIABLES
    timezones,      \* the ordering: sequence of display names, slot 0 first
    locations,      \* display names whose IANA location was loaded
    termSize,       \* <<width, height>> of the Gui, as g.Size() returns it
    mainPc,         \* position of the goroutine running g.MainLoop
    ignored,        \* TRUE when the digit key handled last since the last
                    \* pass was out of range
    idx,            \* the running swap handler's captured index
    tmp,            \* the two right-hand values of its tuple assignment
    oldTop,         \* its local oldTop
    preSwap,        \* the ordering when it started
    notification,   \* the global notification text
    timer,          \* notificationTimer: its state and the seconds left
    callbacks,      \* expired timer functions started but not yet run
    currentCPU,     \* the global CPU text
    currentMEM,     \* the global MEM text
    statsPc,        \* position of the stats worker goroutine
    sampleNo,       \* iterations of the worker's loop started so far
    userEvents,     \* TRUE when g.Update functions of the ticker are queued
    views,          \* the gocui views of the cells, views[i+1] is cell i
    footer,         \* what the last layout pass wrote into the help view
    calls,          \* rectangles the last layout pass handed to SetView
    observed,       \* the ordering the last layout pass read
    lastSwap,       \* <<old, new focus>> of a swap of the last 3 seconds
    sinceSwap,      \* whole seconds since the latest swap (saturating)
    swapsLeft,      \* swaps the user still performs
    saved,          \* the ordering in the configuration file
    now,            \* the instant time.Now().In(loc) gives UpdateViewTime
    paneSize,       \* <<width, height>> v.Size() gives UpdateViewTime
    rendered,       \* what UpdateViewTime and the title wrote into the view
    text,           \* the string given to a text function
    centerWidth,    \* the width given to CenterTime or CenterDate
    output          \* what the text function returned

configVars == <<locations, termSize, saved>>

handlerVars == <<idx, tmp, oldTop, preSwap>>

notifVars == <<notification, timer, callbacks>>

statsVars == <<currentCPU, currentMEM, statsPc, sampleNo>>

passVars == <<views, footer, calls, observed>>

swapVars == <<lastSwap, sinceSwap, swapsLeft>>

renderVars == <<now, paneSize, rendered, text, centerWidth, output>>

vars == <<timezones, configVars, mainPc, ignored, handlerVars, notifVars, statsVars,
          userEvents, passVars, swapVars, renderVars>>

(***************************************************************************)
(* Bounds of the model.                                                    *)
(***************************************************************************)
MaxN == 3
MaxSamples == 1
MaxSwaps == 2
MaxCallbacks == 1
MaxW == 12
MaxH == 13
MaxNarrow == 15
WideWidth == 59
MaxPieces == 3
MaxCenterWidth == 11

(***************************************************************************)
(* Program constants.                                                      *)
(***************************************************************************)
MaxKey == 6
FooterRows == 3
GridRows == 3
ItemsPerRow == 3
NotifySeconds == 3
ArtThreshold == 8
Monday == 1
Friday == 5
BizOpen == 9
BizClose == 17
TotalSeconds == 86400
YellowFrom == 17
RedFrom == 21
RedUntil == 5
ArtRows == 5

Names == <<"UTC", "PST", "GMT", "PHL", "CST", "MST", "EST">>

InitOrdering(n) == SubSeq(Names, 1, n)

\* The names given to the add and remove commands: the first name of the
\* orderings and one no ordering of Init holds.
CliNames == {"UTC", "EST"}

Range(s) == {s[i] : i \in 1..Len(s)}

Min(S) == CHOOSE x \in S : \A y \in S : x <= y

Lesser(a, b) == IF a <= b THEN a ELSE b

\* Go's integer division truncates toward zero.
GoDiv(a, b) == IF a >= 0 THEN a \div b ELSE -((-a) \div b)

(***************************************************************************)
(* Grid layout arithmetic of layout().                                     *)
(***************************************************************************)
GridMaxY(maxY) == maxY - FooterRows

RowHeight(maxY) == GoDiv(GridMaxY(maxY), GridRows)

ColWidth(maxX) == GoDiv(maxX, ItemsPerRow)

TopRect(maxX, maxY) ==
    [x0 |-> 0, y0 |-> 0, x1 |-> maxX - 1, y1 |-> RowHeight(maxY) - 1]

RowNum(i) == GoDiv(i - 1, ItemsPerRow)

ColNum(i) == (i - 1) % ItemsPerRow

LastColumnX1(maxX) == maxX - 1

\* Variant: the last row ends like any other row, y1 = y0 + rowHeight - 1.
LastRowY1NoRemainder(maxY) == (GridRows * RowHeight(maxY)) - 1

LastRowY1(maxY) == GridMaxY(maxY) - 1

SecondaryRect(i, maxX, maxY) ==
    LET x0 == ColNum(i) * ColWidth(maxX)
        y0 == (RowNum(i) + 1) * RowHeight(maxY)
    IN  [x0 |-> x0,
         y0 |-> y0,
         x1 |-> IF ColNum(i) = ItemsPerRow - 1
                THEN LastColumnX1(maxX) ELSE x0 + ColWidth(maxX) - 1,
         y1 |-> IF RowNum(i) = 1
                THEN LastRowY1(maxY) ELSE y0 + RowHeight(maxY) - 1]

HelpRect(maxX, maxY) ==
    [x0 |-> -1, y0 |-> maxY - FooterRows, x1 |-> maxX, y1 |-> maxY - 1]

\* The rectangles layout() asks for, in the order of its SetView calls.
AllRects(maxX, maxY, n) ==
    [j \in 1..(n + 1) |->
        IF j = 1 THEN TopRect(maxX, maxY)
        ELSE IF j <= n THEN SecondaryRect(j - 1, maxX, maxY)
        ELSE HelpRect(maxX, maxY)]

\* gocui's SetView refuses a rectangle with x0 >= x1 or y0 >= y1 (it returns
\* an error other than ErrUnknownView), and layout() returns that error.
SetViewOk(r) == r.x0 < r.x1 /\ r.y0 < r.y1

\* Index of the SetView call that fails in a pass, 0 when none does.
FirstBad(all) ==
    LET bad == {j \in 1..Len(all) : ~SetViewOk(all[j])}
    IN  IF bad = {} THEN 0 ELSE Min(bad)

\* View.Size(): the inner width and height of a view.
InnerHeight(r) == r.y1 - r.y0 - 1

RenderMode(r) == IF InnerHeight(r) < ArtThreshold THEN "plain" ELSE "art"

(***************************************************************************)
(* Texts and records.                                                      *)
(***************************************************************************)
EmptyText == [kind |-> "empty", n |-> 0]

Calculating == [kind |-> "calculating", n |-> 0]

\* The text formatted from the reading of worker iteration n.
SampleText(n) == [kind |-> "sample", n |-> n]

NoNotification == <<>>

\* fmt.Sprintf("Swapped %s with %s", old, new)
SwappedMsg(old, new) == <<"Swapped", old, "with", new>>

NoFooter ==
    [kind |-> "none", msg |-> NoNotification, cpu |-> EmptyText, mem |-> EmptyText]

\* statusPart of the footer: the notification replaces the stats text.
StatusPart(notif, cpu, mem) ==
    IF notif # NoNotification
    THEN [kind |-> "notification", msg |-> notif, cpu |-> EmptyText, mem |-> EmptyText]
    ELSE [kind |-> "stats", msg |-> NoNotification, cpu |-> cpu, mem |-> mem]

NoTitle == [key |-> 0, name |-> ""]

NoContent == [name |-> "", mode |-> "none"]

\* A view as gocui creates it: no title, empty buffer.
NewView(r) == [rect |-> r, title |-> NoTitle, content |-> NoContent]

\* The title and the content layout() writes for slot i (0 = focus).
CellTitle(i, name) == [key |-> i, name |-> name]

CellContent(name, r) == [name |-> name, mode |-> RenderMode(r)]

NilTimer == [state |-> "nil", left |-> 0]

\* No instant has been read and nothing has been written into a view.
NoInstant == [weekday |-> 0, hour |-> 0, minute |-> 0, second |-> 0]

NoRender == [mode |-> "none"]

\* No text function has returned.
NoOutput == [fn |-> "none"]

\* Variant: the goroutines and the timer outlive the return of runGUI.
RunningAfterQuit == mainPc \notin {"boot", "crashed"}

\* The process runs the dashboard: its goroutines and timers exist from
\* runGUI's start to the return of main.
Running == mainPc \notin {"boot", "done", "crashed"}

(***************************************************************************)
(* Initial states.                                                         *)
(***************************************************************************)
InitCommon ==
    /\ mainPc = "boot"
    /\ ignored = FALSE
    /\ idx = 0
    /\ tmp = <<>>
    /\ oldTop = ""
    /\ preSwap = <<>>
    /\ notification = NoNotification
    /\ timer = NilTimer
    /\ callbacks = 0
    /\ currentCPU = EmptyText
    /\ currentMEM = EmptyText
    /\ statsPc = "off"
    /\ sampleNo = 0
    /\ userEvents = FALSE
    /\ views = <<>>
    /\ footer = NoFooter
    /\ calls = <<>>
    /\ observed = <<>>
    /\ lastSwap = <<>>
    /\ sinceSwap = NotifySeconds
    /\ swapsLeft = MaxSwaps
    /\ saved = timezones

\* UpdateViewTime has not run.
NothingRendered ==
    /\ now = NoInstant
    /\ paneSize = <<0, 0>>
    /\ rendered = NoRender
    /\ text = <<>>
    /\ centerWidth = 0
    /\ output = NoOutput

\* A terminal that holds the grid and one too narrow for it.
Sizes == {<<9, 12>>, <<2, 12>>}

Init ==
    /\ \E n \in 0..MaxN : timezones = InitOrdering(n)
    /\ locations = Range(timezones)
    /\ termSize \in Sizes
    /\ InitCommon
    /\ NothingRendered

\* The process ends (runGUI returns after the deferred g.Close(), or
\* log.Panicln ends it): the screen is released and the goroutines, the
\* timer and the globals end with the process.
Teardown ==
    /\ ignored' = FALSE
    /\ idx' = 0
    /\ tmp' = <<>>
    /\ oldTop' = ""
    /\ preSwap' = <<>>
    /\ notification' = NoNotification
    /\ timer' = NilTimer
    /\ callbacks' = 0
    /\ currentCPU' = EmptyText
    /\ currentMEM' = EmptyText
    /\ statsPc' = "off"
    /\ sampleNo' = 0
    /\ userEvents' = FALSE
    /\ views' = <<>>
    /\ footer' = NoFooter
    /\ observed' = <<>>
    /\ lastSwap' = <<>>
    /\ sinceSwap' = NotifySeconds
    /\ swapsLeft' = 0

(***************************************************************************)
(* main: loadConfig has filled timezones from the configuration file; the  *)
(* add and remove commands change the ordering, save it and return without *)
(* starting the dashboard.                                                 *)
(***************************************************************************)
\* saveConfig(): the file gets the JSON text of the ordering.
SaveConfig(tz) == tz

\* The slice "remove" builds: every entry whose name differs.
RemoveName(tz, name) ==
    LET Keep(t) == t # name
    IN  SelectSeq(tz, Keep)

CliFrame ==
    UNCHANGED <<locations, termSize, ignored, handlerVars, notifVars, statsVars,
                userEvents, passVars, swapVars, renderVars>>

\* kairos add "Name" "Location": appended without a check for duplicates.
CliAdd(name) ==
    /\ mainPc = "boot"
    /\ timezones' = Append(timezones, name)
    /\ saved' = SaveConfig(timezones')
    /\ mainPc' = "done"
    /\ CliFrame

\* kairos remove "Name": saved only when an entry had that name.
CliRemove(name) ==
    /\ mainPc = "boot"
    /\ IF name \in Range(timezones)
       THEN /\ timezones' = RemoveName(timezones, name)
            /\ saved' = SaveConfig(timezones')
       ELSE UNCHANGED <<timezones, saved>>
    /\ mainPc' = "done"
    /\ CliFrame

(***************************************************************************)
(* runGUI: refuses to start without timezones, else starts the stats       *)
(* worker and the ticker and enters g.MainLoop.                            *)
(***************************************************************************)
\* Variant: the dashboard starts whatever the configuration holds.
NoTimezonesIgnored(tz) == FALSE

\* if len(timezones) == 0: runGUI prints a hint and returns.
NoTimezones(tz) == Len(tz) = 0

RunGUI ==
    /\ mainPc = "boot"
    /\ IF NoTimezones(timezones)
       THEN /\ mainPc' = "done"
            /\ UNCHANGED statsPc
       ELSE /\ mainPc' = "start"
            /\ statsPc' = "start"
    /\ UNCHANGED <<timezones, configVars, ignored, handlerVars, notifVars,
                   currentCPU, currentMEM, sampleNo, userEvents, passVars,
                   swapVars>>
    /\ UNCHANGED renderVars

(***************************************************************************)
(* layout(): one pass, run by g.flush() on the main loop's goroutine.      *)
(* flush() first stores the size s the terminal has by now, a resize since *)
(* the previous pass included, and layout() reads it with g.Size().        *)
(***************************************************************************)
\* Variant: passes run on a goroutine of their own, also between the two
\* writes of a swap.
LayoutOnOwnGoroutine == mainPc \in {"start", "consume", "swap1"}

\* MainLoop flushes once before its loop and after each batch of events.
LayoutMayRun == mainPc \in {"start", "consume"}

\* The view of cell j-1 after a pass that set its rectangle to r.
LaidOut(j, r, tz, locs, old) ==
    IF tz[j] \in locs
    THEN [rect |-> r,
          title |-> CellTitle(j - 1, tz[j]),
          content |-> CellContent(tz[j], r)]
    ELSE IF j <= Len(old) THEN [old[j] EXCEPT !.rect = r] ELSE NewView(r)

\* Variant: the pass computes from the size the previous pass stored.
PassSizeCached(s, stored) == stored

\* maxX, maxY := g.Size(): the size flush() has stored for this pass.
PassSize(s, stored) == s

Layout(s) ==
    /\ LayoutMayRun
    /\ termSize' = s
    /\ LET maxX == PassSize(s, termSize)[1]
           maxY == PassSize(s, termSize)[2]
           n == Len(timezones)
           all == AllRects(maxX, maxY, n)
           bad == FirstBad(all)
       IN  IF bad = 0
           THEN /\ calls' = all
                /\ views' = [j \in 1..n |->
                               LaidOut(j, all[j], timezones, locations, views)]
                /\ footer' = StatusPart(notification, currentCPU, currentMEM)
                /\ observed' = timezones
                /\ mainPc' = "idle"
                /\ ignored' = FALSE
                /\ UNCHANGED <<handlerVars, notifVars, statsVars, userEvents,
                               swapVars>>
           ELSE \* SetView number bad fails: layout returns the error,
                \* MainLoop returns it and runGUI calls log.Panicln.
                /\ calls' = SubSeq(all, 1, bad)
                /\ mainPc' = "crashed"
                /\ Teardown
    /\ UNCHANGED <<timezones, locations, saved, renderVars>>

(***************************************************************************)
(* KeyBindings: the handlers of the digit keys and of Ctrl+C.  MainLoop    *)
(* runs a handler to its end before it takes another event or flushes.     *)
(***************************************************************************)
AtSelect == mainPc \in {"idle", "consume"}

\* Variant: the early return compares with > instead of >=.
SwapOutOfRangeOffByOne(k, n) == k > n

\* The handler's early return: if idx >= len(timezones) { return nil }
SwapOutOfRange(k, n) == k >= n

\* Variant: two plain assignments, the second reading the slot the first
\* has already overwritten.
SwapReadSequential(tz, k) == <<tz[k + 1], tz[k + 1]>>

\* The right-hand sides of timezones[0], timezones[k] = timezones[k],
\* timezones[0], evaluated before either slot is written.
SwapRead(tz, k) == <<tz[k + 1], tz[1]>>

NoLocals ==
    /\ idx' = 0
    /\ tmp' = <<>>
    /\ oldTop' = ""
    /\ preSwap' = <<>>

\* Key k arrives: the handler checks the index and, when it is in range,
\* reads oldTop and the two right-hand sides of the tuple assignment and
\* assigns the first of them: timezones[0] = (old) timezones[idx].
\* Indexing past the end of the slice panics.
HandleKey(k) ==
    /\ AtSelect
    /\ IF SwapOutOfRange(k, Len(timezones))
       THEN /\ mainPc' = "consume"
            /\ ignored' = TRUE
            /\ UNCHANGED <<timezones, handlerVars, notifVars, statsVars,
                           userEvents, passVars, swapVars>>
       ELSE IF k + 1 > Len(timezones)
       THEN /\ mainPc' = "crashed"
            /\ Teardown
            /\ UNCHANGED <<timezones, calls>>
       ELSE /\ swapsLeft > 0
            /\ mainPc' = "swap1"
            /\ timezones' = [timezones EXCEPT ![1] = SwapRead(timezones, k)[1]]
            /\ idx' = k
            /\ preSwap' = timezones
            /\ oldTop' = timezones[1]
            /\ tmp' = SwapRead(timezones, k)
            /\ swapsLeft' = swapsLeft - 1
            /\ ignored' = FALSE
            /\ UNCHANGED <<notifVars, statsVars, userEvents, passVars,
                           lastSwap, sinceSwap>>
    /\ UNCHANGED configVars
    /\ UNCHANGED renderVars

\* Variant: Stop() is called on the timer just created.
ShownTimerStopped == [state |-> "stopped", left |-> NotifySeconds]

\* showNotification: the message is stored, the old timer stopped (a timer
\* that has expired is not stopped: its function still runs), and a new
\* timer of 3 seconds started.
ShownTimer == [state |-> "armed", left |-> NotifySeconds]

\* Variant: the handler calls saveConfig() after the swap.
ConfigAfterSwapSaved(file, tz) == SaveConfig(tz)

\* The configuration file after a swap: the handler has no saveConfig().
ConfigAfterSwap(file, tz) == file

\* timezones[idx] = (old) timezones[0], then showNotification(...)
SwapWrite1 ==
    /\ mainPc = "swap1"
    /\ timezones' = [timezones EXCEPT ![idx + 1] = tmp[2]]
    /\ notification' = SwappedMsg(oldTop, timezones'[1])
    /\ timer' = ShownTimer
    /\ lastSwap' = <<preSwap[1], preSwap[idx + 1]>>
    /\ sinceSwap' = 0
    /\ mainPc' = "consume"
    /\ NoLocals
    /\ saved' = ConfigAfterSwap(saved, timezones')
    /\ UNCHANGED <<locations, termSize, ignored, callbacks, statsVars, userEvents,
                   passVars, swapsLeft>>
    /\ UNCHANGED renderVars

\* Ctrl+C: the handler returns gocui.ErrQuit, MainLoop and runGUI return.
HandleQuit ==
    /\ AtSelect
    /\ mainPc' = "done"
    /\ Teardown
    /\ UNCHANGED <<timezones, configVars, calls>>
    /\ UNCHANGED renderVars

\* A function queued with g.Update runs (it does nothing).
HandleUser ==
    /\ AtSelect
    /\ userEvents
    /\ userEvents' = FALSE
    /\ mainPc' = "consume"
    /\ UNCHANGED <<timezones, configVars, ignored, handlerVars, notifVars,
                   statsVars, passVars, swapVars>>
    /\ UNCHANGED renderVars

(***************************************************************************)
(* Time: one second passes.  The ticker goroutine queues a g.Update; the   *)
(* functions queued are all run before the next pass, so the model keeps   *)
(* whether any is queued.  The armed timer gets a second closer.           *)
(***************************************************************************)
Tick ==
    /\ Running
    /\ userEvents' = TRUE
    /\ timer' = IF timer.state = "armed" /\ timer.left > 0
                THEN [timer EXCEPT !.left = timer.left - 1] ELSE timer
    /\ sinceSwap' = Lesser(sinceSwap + 1, NotifySeconds)
    /\ lastSwap' = IF sinceSwap + 1 < NotifySeconds THEN lastSwap ELSE <<>>
    /\ UNCHANGED <<timezones, configVars, mainPc, ignored, handlerVars, notification,
                   callbacks, statsVars, passVars, swapsLeft>>
    /\ UNCHANGED renderVars

\* The runtime starts the function of the expired timer in its own goroutine.
TimerExpired(t) == t.state = "armed" /\ t.left = 0

TimerFire ==
    /\ Running
    /\ TimerExpired(timer)
    /\ callbacks < MaxCallbacks
    /\ timer' = [timer EXCEPT !.state = "fired"]
    /\ callbacks' = callbacks + 1
    /\ UNCHANGED <<timezones, configVars, mainPc, ignored, handlerVars, notification,
                   statsVars, userEvents, passVars, swapVars>>
    /\ UNCHANGED renderVars

\* func() { notification = "" }
TimerCallback ==
    /\ Running
    /\ callbacks > 0
    /\ callbacks' = callbacks - 1
    /\ notification' = NoNotification
    /\ UNCHANGED <<timezones, configVars, mainPc, ignored, handlerVars, timer,
                   statsVars, userEvents, passVars, swapVars>>
    /\ UNCHANGED renderVars

(***************************************************************************)
(* startStatsWorker: the goroutine writes the two placeholders, then on    *)
(* every tick of its ticker the CPU text (when cpu.Percent returned a      *)
(* reading) and, after reading the memory statistics, the MEM text.        *)
(***************************************************************************)
StatsFrame ==
    UNCHANGED <<timezones, configVars, mainPc, ignored, handlerVars, notifVars,
                userEvents, passVars, swapVars, renderVars>>

StatsInitCPU ==
    /\ Running
    /\ statsPc = "start"
    /\ currentCPU' = Calculating
    /\ statsPc' = "initMem"
    /\ UNCHANGED <<currentMEM, sampleNo>>
    /\ StatsFrame

StatsInitMEM ==
    /\ Running
    /\ statsPc = "initMem"
    /\ currentMEM' = Calculating
    /\ statsPc' = "wait"
    /\ UNCHANGED <<currentCPU, sampleNo>>
    /\ StatsFrame

StatsSampleCPU(hasReading) ==
    /\ Running
    /\ statsPc = "wait"
    /\ sampleNo < MaxSamples
    /\ sampleNo' = sampleNo + 1
    /\ currentCPU' = IF hasReading THEN SampleText(sampleNo + 1) ELSE currentCPU
    /\ statsPc' = "mem"
    /\ UNCHANGED currentMEM
    /\ StatsFrame

StatsSampleMEM ==
    /\ Running
    /\ statsPc = "mem"
    /\ currentMEM' = SampleText(sampleNo)
    /\ statsPc' = "wait"
    /\ UNCHANGED <<currentCPU, sampleNo>>
    /\ StatsFrame

Next ==
    \/ RunGUI
    \/ \E s \in Sizes : Layout(s)
    \/ \E k \in 1..MaxKey : HandleKey(k)
    \/ SwapWrite1
    \/ HandleQuit
    \/ HandleUser
    \/ Tick
    \/ TimerFire
    \/ TimerCallback
    \/ \E name \in CliNames : CliAdd(name)
    \/ \E name \in CliNames : CliRemove(name)
    \/ StatsInitCPU
    \/ StatsInitMEM
    \/ \E b \in BOOLEAN : StatsSampleCPU(b)
    \/ StatsSampleMEM

Spec == Init /\ [][Next]_vars

\* The main loop, the ticker and the notification timer, without the stats
\* worker, which shares no variable with the notification or its timer.
NextNotification ==
    \/ RunGUI
    \/ \E s \in Sizes : Layout(s)
    \/ \E k \in 1..MaxKey : HandleKey(k)
    \/ SwapWrite1
    \/ HandleQuit
    \/ HandleUser
    \/ Tick
    \/ TimerFire
    \/ TimerCallback
    \/ \E name \in CliNames : CliAdd(name)
    \/ \E name \in CliNames : CliRemove(name)

\* Time passes, expired timers fire and their functions are scheduled.
FairSpec ==
    /\ Init
    /\ [][NextNotification]_vars
    /\ WF_vars(Tick)
    /\ WF_vars(TimerFire)
    /\ WF_vars(TimerCallback)

\* The main loop goes on: a handler that has started returns, a queued
\* g.Update function is taken from the queue, and after the events taken
\* MainLoop flushes, which runs the pass.
FairLoop ==
    /\ Init
    /\ [][NextNotification]_vars
    /\ WF_vars(\E s \in Sizes : Layout(s))
    /\ WF_vars(HandleUser)
    /\ WF_vars(SwapWrite1)

(***************************************************************************)
(* The layout pass alone, over terminal sizes and ordering lengths.        *)
(***************************************************************************)
InitLayout ==
    /\ \E n \in 1..(MaxKey + 1) : timezones = InitOrdering(n)
    /\ locations = Range(timezones)
    /\ termSize \in Sizes
    /\ InitCommon
    /\ NothingRendered

\* Every terminal size up to MaxW x MaxH.
GridSizes == (1..MaxW) \X (1..MaxH)

NextLayout == RunGUI \/ \E s \in GridSizes : Layout(s)

SpecLayout == InitLayout /\ [][NextLayout]_vars

(***************************************************************************)
(* The dashboard with a configuration in which time.LoadLocation fails for *)
(* some of the entries: runGUI leaves them out of the locations map.       *)
(***************************************************************************)
InitLoad ==
    /\ \E n \in 1..MaxN : timezones = InitOrdering(n)
    /\ locations \in SUBSET Range(timezones)
    /\ termSize \in Sizes
    /\ InitCommon
    /\ NothingRendered

SpecLoad == InitLoad /\ [][NextNotification]_vars

(***************************************************************************)
(* UpdateViewTime and the functions it calls.  Texts are sequences of      *)
(* one-character strings; an instant is the weekday (time.Weekday:         *)
(* 0 = Sunday .. 6 = Saturday) and the time of day the location's clock    *)
(* shows.                                                                  *)
(***************************************************************************)
DigitChars == <<"0", "1", "2", "3", "4", "5", "6", "7", "8", "9">>

DigitChar(d) == DigitChars[d + 1]

\* The verb %d of fmt.Sprintf for n >= 0.
RECURSIVE Itoa(_)
Itoa(n) ==
    IF n < 10 THEN <<DigitChar(n)>>
    ELSE Append(Itoa(n \div 10), DigitChar(n % 10))

\* The two-digit fields "03", "04" and "05" of time.Format.
Pad2(n) == <<DigitChar(n \div 10), DigitChar(n % 10)>>

Hour12(h) == IF h % 12 = 0 THEN 12 ELSE h % 12

\* The first letter of the field "PM" of time.Format.
Meridiem(h) == IF h >= 12 THEN "P" ELSE "A"

\* Variant: the separator is blank in the even seconds.
BlinkSeparatorInverted(second) == IF second % 2 = 0 THEN " " ELSE ":"

\* format is "03:04 PM", and "03 04 PM" if now.Second()%2 != 0.
BlinkSeparator(second) == IF second % 2 # 0 THEN " " ELSE ":"

\* now.Format(format)
FormatClock(t) ==
    Pad2(Hour12(t.hour)) \o <<BlinkSeparator(t.second)>> \o Pad2(t.minute)
        \o <<" ", Meridiem(t.hour), "M">>

\* now.Format("03:04:05 PM")
FormatClockSeconds(t) ==
    Pad2(Hour12(t.hour)) \o <<":">> \o Pad2(t.minute) \o <<":">>
        \o Pad2(t.second) \o <<" ", Meridiem(t.hour), "M">>

\* The map digits, with # for the block character.
digits ==
    [c \in {"0", "1", "2", "3", "4", "5", "6", "7", "8", "9",
            ":", "A", "M", "P", " "} |->
        CASE c = "0" -> <<"#####", "#   #", "#   #", "#   #", "#####">>
          [] c = "1" -> <<"  #  ", " ##  ", "  #  ", "  #  ", "#####">>
          [] c = "2" -> <<"#####", "    #", "#####", "#    ", "#####">>
          [] c = "3" -> <<"#####", "    #", "#####", "    #", "#####">>
          [] c = "4" -> <<"#   #", "#   #", "#####", "    #", "    #">>
          [] c = "5" -> <<"#####", "#    ", "#####", "    #", "#####">>
          [] c = "6" -> <<"#####", "#    ", "#####", "#   #", "#####">>
          [] c = "7" -> <<"#####", "    #", "    #", "    #", "    #">>
          [] c = "8" -> <<"#####", "#   #", "#####", "#   #", "#####">>
          [] c = "9" -> <<"#####", "#   #", "#####", "    #", "#####">>
          [] c = ":" -> <<"     ", "  #  ", "     ", "  #  ", "     ">>
          [] c = "A" -> <<"     ", " ##  ", "#  # ", "#### ", "#  # ">>
          [] c = "M" -> <<"     ", "# # #", "#####", "# # #", "#   #">>
          [] c = "P" -> <<"     ", "#### ", "#  # ", "#### ", "#    ">>
          [] c = " " -> <<"     ", "     ", "     ", "     ", "     ">>]

\* Line i of the art: for every character of t that the map has, its row i
\* and a blank; a line is kept as the sequence of these pieces.
\* Variant: a character the map lacks leaves a blank glyph in the line.
GlyphRowBlankIfMissing(c, i) ==
    IF c \in DOMAIN digits THEN <<digits[c][i], " ">> ELSE <<"     ", " ">>

\* art, ok := digits[char]; if !ok { continue }; lines[i] += art[i] + " "
GlyphRow(c, i) ==
    IF c \in DOMAIN digits THEN <<digits[c][i], " ">> ELSE <<>>

RECURSIVE ArtLine(_, _)
ArtLine(t, i) ==
    IF t = <<>> THEN <<>>
    ELSE GlyphRow(Head(t), i) \o ArtLine(Tail(t), i)

PrintTimeASCII(t) == [i \in 1..ArtRows |-> ArtLine(t, i)]

getDayNightIcon(t) == IF t.hour >= 6 /\ t.hour < 18 THEN "sun" ELSE "moon"

\* Variant: the office is still open in the hour that starts at 17:00.
DuringBusinessHoursInclusive(weekday, hour) ==
    weekday >= Monday /\ weekday <= Friday /\ hour >= BizOpen /\ hour <= BizClose

DuringBusinessHours(weekday, hour) ==
    weekday >= Monday /\ weekday <= Friday /\ hour >= BizOpen /\ hour < BizClose

getBusinessHoursIndicator(t) ==
    IF DuringBusinessHours(t.weekday, t.hour) THEN "open" ELSE "closed"

SecondsElapsed(t) == (t.hour * 3600) + (t.minute * 60) + t.second

\* percent := secondsElapsed / totalSeconds, kept as the fraction it rounds.
Percent(t) == [num |-> SecondsElapsed(t), den |-> TotalSeconds]

\* int(totalSeconds - secondsElapsed): both are whole numbers, exact in
\* float64.
RemainingSecs(t) == TotalSeconds - SecondsElapsed(t)

HoursLeft(r) == GoDiv(r, 3600)

\* Variant: the minutes are not reduced to the minutes of the last hour.
MinutesLeftTotal(r) == GoDiv(r, 60)

MinutesLeft(r) == GoDiv(r % 3600, 60)

\* fmt.Sprintf(" %dh %dm left", ...): the text starts with a blank.
TimeRemaining(t) ==
    <<" ">> \o Itoa(HoursLeft(RemainingSecs(t))) \o <<"h", " ">>
        \o Itoa(MinutesLeft(RemainingSecs(t))) \o <<"m", " ", "l", "e", "f", "t">>

\* Variant: a negative width is not raised to 0.
BarWidthUnclamped(t, width) == width - 2 - Len(TimeRemaining(t))

BarWidth(t, width) ==
    LET barWidth == width - 2 - Len(TimeRemaining(t))
    IN  IF barWidth < 0 THEN 0 ELSE barWidth

\* The pairs <<barWidth, secondsElapsed>>, barWidth in 0..64, for which the
\* float64 product float64(barWidth) * (secondsElapsed / 86400.0) is below
\* the whole number that barWidth * secondsElapsed / 86400 is exactly: the
\* quotient is rounded down to the nearest float64 and the product stays
\* under the whole number.  For every other pair of that range the
\* conversion to int gives the floor of the exact product (an exact product
\* that is no whole number is at least 1/86400 away from one).
RoundedBelow == {<<45, 24960>>, <<45, 49920>>, <<50, 50112>>}

\* fillWidth := int(float64(barWidth) * percent)
FillWidth(barWidth, elapsed) ==
    IF <<barWidth, elapsed>> \in RoundedBelow
    THEN ((barWidth * elapsed) \div TotalSeconds) - 1
    ELSE (barWidth * elapsed) \div TotalSeconds

\* Variant: the yellow test comes last and has no upper limit.
BarColorYellowLast(hour) ==
    LET c1 == IF hour >= RedFrom \/ hour < RedUntil THEN "red" ELSE "green"
    IN  IF hour >= YellowFrom THEN "yellow" ELSE c1

\* color is green, then yellow if 17 <= hour < 21, then red if hour >= 21
\* or hour < 5.
BarColor(hour) ==
    LET c1 == IF hour >= YellowFrom /\ hour < RedFrom THEN "yellow" ELSE "green"
    IN  IF hour >= RedFrom \/ hour < RedUntil THEN "red" ELSE c1

\* The bar: the colour, the filled and the blank columns between the
\* brackets, and the text after the closing bracket.
getDayProgressBar(t, width) ==
    LET barWidth == BarWidth(t, width)
        fillWidth == FillWidth(barWidth, SecondsElapsed(t))
    IN  [color |-> BarColor(t.hour),
         percent |-> Percent(t),
         fill |-> fillWidth,
         blank |-> barWidth - fillWidth,
         text |-> TimeRemaining(t)]

\* now.Format(layout) for the two date layouts: the layout used and the
\* weekday it prints (an instant carries no day, month or year).
FormatDate(layout, t) == [layout |-> layout, weekday |-> t.weekday]

\* Variant: a view of exactly 8 rows is still drawn as plain text.
PlainModeInclusive(height) == height <= ArtThreshold

\* if height < 8: the plain text instead of the art.
PlainMode(height) == height < ArtThreshold

\* The title parts layout() computes from the instant, and what
\* UpdateViewTime writes into a view of the given inner size (the padding
\* CenterTime and CenterDate put before a line is not kept).
ViewText(t, size) ==
    IF PlainMode(size[2])
    THEN [mode |-> "plain",
          icon |-> getDayNightIcon(t),
          titleBiz |-> getBusinessHoursIndicator(t),
          clock |-> FormatClockSeconds(t),
          art |-> <<>>,
          date |-> FormatDate("Mon, Jan 2", t),
          biz |-> "",
          bar |-> getDayProgressBar(t, size[1])]
    ELSE [mode |-> "art",
          icon |-> getDayNightIcon(t),
          titleBiz |-> getBusinessHoursIndicator(t),
          clock |-> FormatClock(t),
          art |-> PrintTimeASCII(FormatClock(t)),
          date |-> FormatDate("Monday, January 2, 2006", t),
          biz |-> getBusinessHoursIndicator(t),
          bar |-> getDayProgressBar(t, size[1])]

UpdateViewTime ==
    /\ rendered = NoRender
    /\ rendered' = ViewText(now, paneSize)
    /\ UNCHANGED <<timezones, configVars, mainPc, ignored, handlerVars, notifVars,
                   statsVars, userEvents, passVars, swapVars, now, paneSize,
                   text, centerWidth, output>>

\* The instants: every weekday and hour, the first and the last minute and
\* second, seconds of either parity and the minute 56.
Instants ==
    [weekday : 0..6, hour : 0..23, minute : {0, 56, 59}, second : {0, 4, 5, 59}]

\* Inner sizes of a view: the narrow widths, one wide view, and the heights
\* on either side of the art threshold.
PaneSizes == ((0..MaxNarrow) \cup {WideWidth}) \X {ArtThreshold - 1, ArtThreshold}

InitRender ==
    /\ timezones = InitOrdering(1)
    /\ locations = Range(timezones)
    /\ termSize = <<MaxW, MaxH>>
    /\ InitCommon
    /\ now \in Instants
    /\ paneSize \in PaneSizes
    /\ rendered = NoRender
    /\ text = <<>>
    /\ centerWidth = 0
    /\ output = NoOutput

SpecRender == InitRender /\ [][UpdateViewTime]_vars

(***************************************************************************)
(* CenterTime, CenterDate and PrintTimeASCII on texts of any kind.  In a   *)
(* text ^ is the escape character 0x1b and @ a rune two columns wide.      *)
(***************************************************************************)
\* The strings the replacer of CenterDate removes, in its order.
Markers ==
    << <<"^", "[", "1", "m">>, <<"^", "[", "0", "m">>, <<"^", "[", "3", "3", "m">>,
       <<"^", "[", "3", "2", "m">>, <<"^", "[", "3", "1", "m">> >>

\* runewidth.RuneWidth: a control character takes no column.
RuneWidth(c) == IF c = "^" THEN 0 ELSE IF c = "@" THEN 2 ELSE 1

RECURSIVE StringWidth(_)
StringWidth(s) ==
    IF s = <<>> THEN 0 ELSE RuneWidth(Head(s)) + StringWidth(Tail(s))

\* strings.Repeat(" ", n)
Spaces(n) == [i \in 1..n |-> " "]

\* Variant: the whole free width goes before the text.
CenterPadAll(width, w) == width - w

\* pad := (width - runewidth.StringWidth(s)) / 2
CenterPad(width, w) == GoDiv(width - w, 2)

CenterTime(s, width) ==
    LET pad == CenterPad(width, StringWidth(s))
    IN  IF pad > 0 THEN Spaces(pad) \o s ELSE s

MatchAt(s, m) == Len(s) >= Len(m) /\ SubSeq(s, 1, Len(m)) = m

\* Variant: nothing is removed before the width is taken.
ReplaceNothing(s) == s

\* repl.Replace(s): from left to right, a marker found at the position is
\* left out, any other character is copied.
RECURSIVE Replace(_)
Replace(s) ==
    IF s = <<>> THEN <<>>
    ELSE LET found == {k \in 1..Len(Markers) : MatchAt(s, Markers[k])}
         IN  IF found # {}
             THEN Replace(SubSeq(s, Len(Markers[Min(found)]) + 1, Len(s)))
             ELSE <<Head(s)>> \o Replace(Tail(s))

CenterDate(s, width) ==
    LET clean == Replace(s)
        pad == CenterPad(width, StringWidth(clean))
    IN  IF pad > 0 THEN Spaces(pad) \o s ELSE s

CallFrame ==
    /\ output = NoOutput
    /\ UNCHANGED <<timezones, configVars, mainPc, ignored, handlerVars, notifVars,
                   statsVars, userEvents, passVars, swapVars, now, paneSize,
                   rendered, text, centerWidth>>

CallCenterTime ==
    /\ output' = [fn |-> "CenterTime", value |-> CenterTime(text, centerWidth)]
    /\ CallFrame

CallCenterDate ==
    /\ output' = [fn |-> "CenterDate", value |-> CenterDate(text, centerWidth)]
    /\ CallFrame

CallPrintTimeASCII ==
    /\ output' = [fn |-> "PrintTimeASCII", value |-> PrintTimeASCII(text)]
    /\ CallFrame

\* What texts are made of: letters with and without a glyph, the colon, the
\* blank, a wide rune, three of the markers and the start of one.
TextPieces ==
    { <<"A">>, <<"B">>, <<":">>, <<" ">>, <<"@">>, <<"^", "[">>,
      <<"^", "[", "1", "m">>, <<"^", "[", "0", "m">>, <<"^", "[", "3", "3", "m">> }

RECURSIVE Texts(_)
Texts(n) ==
    IF n = 0 THEN {<<>>}
    ELSE Texts(n - 1) \cup {t \o p : t \in Texts(n - 1), p \in TextPieces}

InitText ==
    /\ timezones = InitOrdering(1)
    /\ locations = Range(timezones)
    /\ termSize = <<MaxW, MaxH>>
    /\ InitCommon
    /\ now = NoInstant
    /\ paneSize = <<0, 0>>
    /\ rendered = NoRender
    /\ text \in Texts(MaxPieces)
    /\ centerWidth \in 0..MaxCenterWidth
    /\ output = NoOutput

NextText == CallCenterTime \/ CallCenterDate \/ CallPrintTimeASCII

SpecText == InitText /\ [][NextText]_vars

(***************************************************************************)
(* Properties of the swap handlers.                                        *)
(***************************************************************************)
\* The step on which a swap handler returns.
SwapReturns == mainPc = "swap1" /\ mainPc' = "consume"

\* C1: for every ordering of length N and every key k in 1..6 with k < N,
\* pressing key k exchanges exactly slots 0 and k: when the handler returns
\* slot 0 holds the pre-swap slot k, slot k holds the pre-swap slot 0, the
\* length is unchanged and every other slot has its pre-swap value.
C1_SwapExchangesSlots ==
    [][/\ \A k \in 1..MaxKey :
            (HandleKey(k) /\ k < Len(timezones))
                => (mainPc' = "swap1" /\ idx' = k /\ preSwap' = timezones)
       /\ SwapReturns =>
            /\ Len(timezones') = Len(preSwap)
            /\ timezones'[1] = preSwap[idx + 1]
            /\ timezones'[idx + 1] = preSwap[1]
            /\ \A j \in 1..Len(preSwap) :
                   j \notin {1, idx + 1} => timezones'[j] = preSwap[j]]_vars

\* A swap with key 2 of a three-slot ordering has returned: slots 0 and 2
\* are exchanged and slot 1 is where it was.
C1_Witness ==
    /\ mainPc = "consume"
    /\ sinceSwap = 0
    /\ timezones = <<"GMT", "PST", "UTC">>
    /\ lastSwap = <<"UTC", "GMT">>

\* C2: for every ordering of length N and every key k in 1..6 with k >= N,
\* pressing key k leaves the ordering unchanged, raises no error and does
\* not end the program: MainLoop goes on to its next pass.
C2_OutOfRangeKeyIsNoOp ==
    [][\A k \in 1..MaxKey :
          (HandleKey(k) /\ k >= Len(timezones))
              => /\ timezones' = timezones
                 /\ mainPc' = "consume"
                 /\ notification' = notification]_vars

\* An out-of-range key was handled in a three-slot ordering and the loop is
\* about to run its pass.
C2_Witness ==
    /\ ignored
    /\ mainPc = "consume"
    /\ Len(timezones) = 3

\* An ordering with every configured name in exactly one slot.
Complete(o) ==
    /\ Range(o) = Range(InitOrdering(Len(o)))
    /\ \A i, j \in 1..Len(o) : o[i] = o[j] => i = j

\* C3: a swap is atomic with respect to layout passes: the ordering a pass
\* reads is never one in which only one of the two slots has been written
\* (such an ordering holds one name twice and misses another).
C3_PassSeesCompleteOrdering ==
    /\ observed # <<>> => Complete(observed)
    /\ mainPc = "idle" => observed = timezones

\* A pass has run after a swap and has read the post-swap ordering.
C3_Witness ==
    /\ mainPc = "idle"
    /\ lastSwap # <<>>
    /\ observed[1] = lastSwap[2]
    /\ observed # InitOrdering(Len(observed))

(***************************************************************************)
(* Properties of the notification.                                         *)
(***************************************************************************)
\* C4: every pass in the 3 seconds that follow a swap shows "Swapped {old
\* focus} with {new focus}" in the footer in place of the stats text.  A
\* pass whose footer is on screen while lastSwap is set ran after that swap
\* and less than 3 seconds after it.
C4_NotificationShownForThreeSeconds ==
    (mainPc = "idle" /\ lastSwap # <<>>)
        => /\ footer.kind = "notification"
           /\ footer.msg = SwappedMsg(lastSwap[1], lastSwap[2])

\* C5: a notification is cleared once its expiry is reached: after the last
\* swap it eventually becomes empty, and every pass that runs while it is
\* empty shows the stats text in the footer.
C5_NotificationClearedAtExpiry ==
    /\ (notification # NoNotification) ~> (notification = NoNotification)
    /\ [][(LayoutMayRun /\ mainPc' = "idle" /\ notification = NoNotification)
            => footer'.kind = "stats"]_vars

\* The timer of a swap has fired, its function has cleared the notification
\* and a later pass shows the stats text.
C5_Witness ==
    /\ mainPc = "idle"
    /\ timer.state = "fired"
    /\ callbacks = 0
    /\ notification = NoNotification
    /\ footer.kind = "stats"

(***************************************************************************)
(* Properties of the stats texts.                                          *)
(***************************************************************************)
\* C6: a pass reads a (CPU text, MEM text) pair that one iteration of the
\* worker wrote together, or the placeholder pair (or the pair of empty
\* texts the program starts with), never the CPU text of one write combined
\* with the MEM text of another.
C6_StatsPairWrittenTogether ==
    footer.kind = "stats" => footer.cpu = footer.mem

(***************************************************************************)
(* Properties of the grid geometry, over the rectangles a pass hands to    *)
(* SetView.  A rectangle (x0, y0, x1, y1) holds the cells x0..x1, y0..y1.  *)
(***************************************************************************)
Cells(r) == (r.x0..r.x1) \X (r.y0..r.y1)

Area(r) == (r.x1 - r.x0 + 1) * (r.y1 - r.y0 + 1)

RECURSIVE SumAreas(_)
SumAreas(rs) == IF rs = <<>> THEN 0 ELSE Area(Head(rs)) + SumAreas(Tail(rs))

Grid(w, h) == (0..(w - 1)) \X (0..(h - 1))

PassCompleted == mainPc = "idle"

\* C7: for all widths W >= 1, heights H >= 4 and secondary counts K in 0..6
\* the focus rectangle, the K secondary rectangles and the footer rectangle
\* of a pass are pairwise disjoint and together cover every cell of the
\* W x H grid, the sum of their areas being W * H.
C7_RectanglesTileGrid ==
    (/\ PassCompleted
     /\ termSize[1] >= 1
     /\ termSize[2] >= 4
     /\ Len(timezones) - 1 \in 0..MaxKey)
        => /\ \A i, j \in 1..Len(calls) :
                  i # j => Cells(calls[i]) \cap Cells(calls[j]) = {}
           /\ UNION {Cells(calls[j]) : j \in 1..Len(calls)}
                  = Grid(termSize[1], termSize[2])
           /\ SumAreas(calls) = termSize[1] * termSize[2]

\* The rectangle of secondary slot i as the grid rule states it.
GridRule(i, w, h) ==
    LET rowHeight == (h - 3) \div 3
        gridHeight == h - 3
        row == (i - 1) \div 3
        col == (i - 1) % 3
        x0 == col * (w \div 3)
        y0 == (row + 1) * rowHeight
    IN  [x0 |-> x0,
         y0 |-> y0,
         x1 |-> IF col = 2 THEN w - 1 ELSE x0 + (w \div 3) - 1,
         y1 |-> IF row = 1 THEN gridHeight - 1 ELSE y0 + rowHeight - 1]

\* C8: for all K in 0..6 a pass lays out exactly K secondary rectangles
\* (between the focus rectangle and the footer rectangle), and the one of
\* slot i, 1 <= i <= K, is at row (i-1)/3 and column (i-1) mod 3 with
\* x0 = col*(W/3), y0 = (row+1)*rowHeight, x1 = x0+W/3-1 except W-1 in
\* column 2, and y1 = y0+rowHeight-1 except gridHeight-1 in row 1.
C8_SecondaryPlacement ==
    LET K == Len(timezones) - 1
    IN  /\ PassCompleted => Len(calls) = K + 2
        /\ \A j \in 2..Len(calls) :
               j <= K + 1
                   => calls[j] = GridRule(j - 1, termSize[1], termSize[2])

\* A pass with six secondary cells has completed on a terminal whose grid
\* height is no multiple of 3, so that the last row takes the remainder.
C8_Witness ==
    /\ PassCompleted
    /\ Len(calls) = MaxKey + 2
    /\ (termSize[2] - FooterRows) % GridRows # 0
    /\ calls[MaxKey + 1].y1 = termSize[2] - FooterRows - 1
    /\ calls[MaxKey + 1].x1 = termSize[1] - 1

\* C9: every rectangle of a pass (focus, secondary, footer) has x0 <= x1 and
\* y0 <= y1, for every width >= 1, height >= 1 and ordering length >= 1.
C9_RectanglesWellFormed ==
    \A j \in 1..Len(calls) :
        calls[j].x0 <= calls[j].x1 /\ calls[j].y0 <= calls[j].y1

\* C10: for a terminal with W < 3 or rowHeight <= 0, also one reached by a
\* resize, a pass completes without an error and the dashboard keeps
\* running.
C10_DegenerateGeometryKeepsRunning ==
    (termSize[1] < 3 \/ RowHeight(termSize[2]) <= 0) => mainPc # "crashed"

(***************************************************************************)
(* Properties of slots whose location could not be loaded.                 *)
(***************************************************************************)
\* C11: a slot whose location cannot be resolved is skipped: after every
\* pass the cell at the position the slot is in (swaps may have moved it)
\* shows no time content, and the cell of every slot whose location was
\* loaded shows the time content of that slot.
C11_UnloadableSlotSkipped ==
    PassCompleted =>
        \A j \in 1..Len(timezones) :
            IF timezones[j] \in locations
            THEN views[j].content.name = timezones[j]
            ELSE views[j].content = NoContent

(***************************************************************************)
(* Properties of the main loop.                                            *)
(***************************************************************************)
\* The main loop has a pass to run: before its first pass, after an event
\* it has handled, or inside a swap handler.
PassDue == mainPc \in {"start", "consume", "swap1"}

PassRanOrEnded == mainPc \in {"idle", "done", "crashed"}

\* C12: every trigger is followed by a pass: the g.Update function a tick
\* queued is taken from the queue and a digit key is handled, either puts
\* the main loop where a pass is due, and a due pass runs (unless the
\* program ends first).  Every pass computes all its rectangles from the
\* terminal size queried at its start, so the first pass after a resize
\* uses the new size.
C12_TriggerThenPassAtCurrentSize ==
    /\ userEvents ~> ~userEvents
    /\ [][HandleUser => PassDue']_vars
    /\ [][\A k \in 1..MaxKey : HandleKey(k) => (PassDue' \/ mainPc' = "crashed")]_vars
    /\ PassDue ~> PassRanOrEnded
    /\ [][\A s \in Sizes :
             Layout(s)
                 => LET all == AllRects(s[1], s[2], Len(timezones))
                    IN  /\ termSize' = s
                        /\ \/ calls' = all
                           \/ /\ FirstBad(all) # 0
                              /\ calls' = SubSeq(all, 1, FirstBad(all))]_vars

\* After a swap (so after a pass on the 9 x 12 terminal) the terminal was
\* resized to 2 x 12 and the next pass asked for the focus rectangle and
\* the first secondary rectangle of that size.
C12_Witness ==
    /\ mainPc = "crashed"
    /\ termSize = <<2, 12>>
    /\ timezones # InitOrdering(Len(timezones))
    /\ calls = SubSeq(AllRects(2, 12, Len(timezones)), 1, 2)

\* C13: quit is terminal: the Ctrl+C handler ends the main loop, and from
\* then on no pass runs (the views, the footer and the rectangles stay),
\* no swap changes the ordering, and the ticker, the stats worker and the
\* notification timer change nothing.
C13_QuitIsTerminal ==
    /\ [][HandleQuit => mainPc' = "done"]_vars
    /\ [][mainPc = "done"
            => /\ mainPc' = "done"
               /\ UNCHANGED <<timezones, passVars>>
               /\ UNCHANGED <<userEvents, statsVars, notifVars>>
               /\ UNCHANGED <<configVars, handlerVars, swapVars>>]_vars

\* Ctrl+C was handled in a dashboard that had swapped and run passes.
C13_Witness ==
    /\ mainPc = "done"
    /\ calls # <<>>
    /\ Len(timezones) = MaxN
    /\ timezones # InitOrdering(MaxN)

(***************************************************************************)
(* Properties of the configuration file.                                   *)
(***************************************************************************)
\* C14: swaps are session-local: no step of the running dashboard (swap,
\* tick, pass, timer, worker) writes the configuration file; the file
\* changes only in a step of the add or the remove command, which writes
\* the ordering that command has built.
C14_OnlyCliWritesConfig ==
    /\ [][mainPc # "boot" => saved' = saved]_vars
    /\ [][saved' # saved
            => /\ \E name \in CliNames : CliAdd(name) \/ CliRemove(name)
               /\ saved' = timezones']_vars

\* A swap has changed the ordering of the running dashboard and a pass has
\* shown it, while the file still holds the ordering that was loaded.
C14_Witness ==
    /\ mainPc = "idle"
    /\ lastSwap # <<>>
    /\ observed = timezones
    /\ saved = InitOrdering(Len(timezones))
    /\ saved # timezones

(***************************************************************************)
(* Properties of the key numbers.                                          *)
(***************************************************************************)
\* C15: after every pass the cell at grid row r and column c, when it shows
\* a title, is the cell of slot i = 3r+c+1: its title has the prefix [i]
\* and the name of slot i, its content is the time of slot i, and key i
\* moves exactly the timezone the cell shows to the focus slot.
C15_KeyNumberMatchesCell ==
    PassCompleted =>
        \A r \in 0..(GridRows - 2), c \in 0..(ItemsPerRow - 1) :
            LET i == (ItemsPerRow * r) + c + 1
            IN  (i < Len(timezones) /\ views[i + 1].title # NoTitle)
                    => /\ RowNum(i) = r /\ ColNum(i) = c
                       /\ views[i + 1].title = CellTitle(i, timezones[i + 1])
                       /\ views[i + 1].content.name = timezones[i + 1]
                       /\ SwapRead(timezones, i)[1] = views[i + 1].title.name

(***************************************************************************)
(* Properties of the text UpdateViewTime writes.                           *)
(***************************************************************************)
Rendered == rendered # NoRender

\* C16: for every weekday and every hour 0..23 the business hours
\* indicator is the open one if and only if the weekday is Monday..Friday
\* and 9 <= hour < 17; it is the closed one at hour 17 and at every hour of
\* Saturday and Sunday.
C16_BusinessHoursIndicator ==
    Rendered =>
        /\ rendered.titleBiz \in {"open", "closed"}
        /\ rendered.titleBiz = "open"
               <=> (now.weekday \in 1..5 /\ 9 <= now.hour /\ now.hour < 17)
        /\ now.hour = 17 => rendered.titleBiz = "closed"
        /\ now.weekday \in {0, 6} => rendered.titleBiz = "closed"
        /\ rendered.mode = "art" => rendered.biz = rendered.titleBiz

\* Friday 16:59:59, the last second of the business week, shown as open.
C16_Witness ==
    /\ Rendered
    /\ now = [weekday |-> 5, hour |-> 16, minute |-> 59, second |-> 59]
    /\ rendered.titleBiz = "open"
    /\ rendered.mode = "art"

\* The text "{H}h {M}m left".
LeftText(H, M) ==
    Itoa(H) \o <<"h", " ">> \o Itoa(M) \o <<"m", " ", "l", "e", "f", "t">>

\* The numbers of the day progress of an instant: e = 3600h + 60m + s,
\* the fraction e/86400 in [0, 1), 0 at 00:00:00 and 1/2 at 12:00:00.
DayProgressNumbers(t, bar) ==
    LET e == (3600 * t.hour) + (60 * t.minute) + t.second
    IN  /\ bar.percent = [num |-> e, den |-> 86400]
        /\ 0 <= bar.percent.num /\ bar.percent.num < bar.percent.den
        /\ (t.hour = 0 /\ t.minute = 0 /\ t.second = 0) => bar.percent.num = 0
        /\ (t.hour = 12 /\ t.minute = 0 /\ t.second = 0)
               => 2 * bar.percent.num = bar.percent.den

\* C17 as stated: for every time of day the day progress uses
\* secondsElapsed = 3600h+60m+s and the fraction secondsElapsed/86400 in
\* [0,1), and the remaining text is "{H}h {M}m left" with
\* H = (86400-secondsElapsed) div 3600 and
\* M = ((86400-secondsElapsed) mod 3600) div 60.
C17_DayProgressAsStated ==
    Rendered =>
        LET e == (3600 * now.hour) + (60 * now.minute) + now.second
        IN  /\ DayProgressNumbers(now, rendered.bar)
            /\ rendered.bar.text
                   = LeftText((86400 - e) \div 3600, ((86400 - e) % 3600) \div 60)

\* C17, amended: the numbers are as stated, and the remaining text is a
\* blank followed by "{H}h {M}m left": " 24h 0m left" at 00:00:00 and
\* " 0h 0m left" at 23:59:59.
C17_DayProgress ==
    Rendered =>
        LET e == (3600 * now.hour) + (60 * now.minute) + now.second
        IN  /\ DayProgressNumbers(now, rendered.bar)
            /\ rendered.bar.text
                   = <<" ">> \o LeftText((86400 - e) \div 3600,
                                          ((86400 - e) % 3600) \div 60)
            /\ (now.hour = 0 /\ now.minute = 0 /\ now.second = 0)
                   => rendered.bar.text
                          = <<" ", "2", "4", "h", " ", "0", "m", " ", "l", "e", "f", "t">>
            /\ (now.hour = 23 /\ now.minute = 59 /\ now.second = 59)
                   => rendered.bar.text
                          = <<" ", "0", "h", " ", "0", "m", " ", "l", "e", "f", "t">>

\* The bar of 23:59:59, one second before midnight.
C17_Witness ==
    /\ Rendered
    /\ now.hour = 23 /\ now.minute = 59 /\ now.second = 59
    /\ rendered.bar.percent.num = 86399
    /\ Len(rendered.bar.text) = 11

\* C18: for every hour 0..23 the progress bar has exactly one colour:
\* green iff 5 <= hour < 17, yellow iff 17 <= hour < 21, red iff
\* hour >= 21 or hour < 5.
C18_OneColourBand ==
    Rendered =>
        /\ rendered.bar.color \in {"green", "yellow", "red"}
        /\ rendered.bar.color = "green" <=> (5 <= now.hour /\ now.hour < 17)
        /\ rendered.bar.color = "yellow" <=> (17 <= now.hour /\ now.hour < 21)
        /\ rendered.bar.color = "red" <=> (now.hour >= 21 \/ now.hour < 5)

\* The bar of an instant in the hour that starts at 21:00 is red.
C18_Witness ==
    /\ Rendered
    /\ now.hour = 21
    /\ rendered.bar.color = "red"

\* C19: for every time of day and every total width the track of the bar
\* (its filled and its blank columns) is max(0, totalWidth - 2 - length of
\* the remaining-time text) wide, and the number of filled columns is
\* floor(trackWidth * fraction) and never negative.
C19_TrackAndFill ==
    Rendered =>
        LET bar == rendered.bar
            trackWidth == bar.fill + bar.blank
            reserved == paneSize[1] - 2 - Len(bar.text)
        IN  /\ trackWidth = IF reserved < 0 THEN 0 ELSE reserved
            /\ bar.fill = (trackWidth * bar.percent.num) \div bar.percent.den
            /\ bar.fill >= 0

\* The separator position of the strings "03:04 PM" and "03 04 PM".
SeparatorPos == 3

\* Two sequences of one length that differ at most in position p.
SameButAt(a, b, p) ==
    /\ Len(a) = Len(b)
    /\ [a EXCEPT ![p] = ""] = [b EXCEPT ![p] = ""]

\* C20: in art mode the time string has ':' between hour and minute when
\* second mod 2 = 0 and a blank when second mod 2 = 1, and the string of
\* the same instant at any other second differs from it at most in that
\* position, as do the glyphs of the art made of it.
C20_SeparatorBlinks ==
    (Rendered /\ rendered.mode = "art") =>
        /\ now.second % 2 = 0 => rendered.clock[SeparatorPos] = ":"
        /\ now.second % 2 = 1 => rendered.clock[SeparatorPos] = " "
        /\ \A s2 \in 0..59 :
               /\ SameButAt(FormatClock([now EXCEPT !.second = s2]),
                             rendered.clock, SeparatorPos)
               /\ FormatClock([now EXCEPT !.second = s2]) # rendered.clock
                      <=> s2 % 2 # now.second % 2
               /\ \A row \in 1..ArtRows :
                      SameButAt(ArtLine(FormatClock([now EXCEPT !.second = s2]), row),
                                rendered.art[row], (2 * SeparatorPos) - 1)

\* The art of an instant at second 5: a blank where second 4 has the colon.
C20_Witness ==
    /\ Rendered
    /\ rendered.mode = "art"
    /\ now.second = 5
    /\ rendered.clock[SeparatorPos] = " "
    /\ rendered.art[2][(2 * SeparatorPos) - 1] = "     "
    /\ PrintTimeASCII(FormatClock([now EXCEPT !.second = 4]))[2][(2 * SeparatorPos) - 1]
           = "  #  "

(***************************************************************************)
(* Properties of the render mode.                                          *)
(***************************************************************************)
\* The rectangle of the view whose inner size is the given one: gocui
\* draws the frame on the rectangle's first and last row and column.
RectOfSize(size) == [x0 |-> 0, y0 |-> 0, x1 |-> size[1] + 1, y1 |-> size[2] + 1]

\* Rows of a rectangle, y0 and y1 included.
RectHeight(r) == r.y1 - r.y0 + 1

\* What the two modes write.
PlainContent(r) ==
    /\ r.mode = "plain"
    /\ Len(r.clock) = 11
    /\ r.art = <<>>
    /\ r.date.layout = "Mon, Jan 2"
    /\ r.biz = ""
    /\ r.bar.text # <<>>

ArtContent(r) ==
    /\ r.mode = "art"
    /\ Len(r.art) = 5
    /\ r.date.layout = "Monday, January 2, 2006"
    /\ r.biz \in {"open", "closed"}
    /\ r.bar.text # <<>>

\* C21 as stated: the render mode is decided by the height of the cell's
\* rectangle with threshold 8: a cell of height < 8 is rendered in plain
\* mode (one time line, one short date line, progress bar), a cell of
\* height >= 8 in art mode (5 glyph rows, date line, business hours line,
\* progress bar).
C21_ModeByRectHeight ==
    Rendered =>
        LET height == RectHeight(RectOfSize(paneSize))
        IN  /\ height < 8 => PlainContent(rendered)
            /\ height >= 8 => ArtContent(rendered)

\* C21, amended: the mode is decided by the inner height of the cell's
\* view, v.Size(), which is the rectangle's height less the two frame
\* rows: inner height < 8 gives plain mode, inner height >= 8 art mode,
\* each with the content stated.
C21_ModeByInnerHeight ==
    Rendered =>
        LET height == InnerHeight(RectOfSize(paneSize))
        IN  /\ height = paneSize[2]
            /\ height < 8 => PlainContent(rendered)
            /\ height >= 8 => ArtContent(rendered)

\* A view of inner height 8, the threshold, drawn with the five art rows.
C21_Witness ==
    /\ Rendered
    /\ paneSize[2] = 8
    /\ ArtContent(rendered)
    /\ RectHeight(RectOfSize(paneSize)) = 10

(***************************************************************************)
(* Properties of the text functions.                                       *)
(***************************************************************************)
AtLeastZero(n) == IF n < 0 THEN 0 ELSE n

\* C22: for every text and width CenterTime returns the text preceded by
\* exactly max(0, (width - displayWidth(text)) div 2) blanks, with nothing
\* after it and no character of it removed, also when the text is wider
\* than the width; "AB" in width 10 gets exactly 4 blanks.
C22_CenterTimePadsLeft ==
    output.fn = "CenterTime" =>
        LET pad == AtLeastZero((centerWidth - StringWidth(text)) \div 2)
        IN  /\ Len(output.value) = pad + Len(text)
            /\ \A i \in 1..pad : output.value[i] = " "
            /\ SubSeq(output.value, pad + 1, Len(output.value)) = text
            /\ (text = <<"A", "B">> /\ centerWidth = 10)
                   => output.value = <<" ", " ", " ", " ", "A", "B">>

\* CenterTime("AB", 10) has returned.
C22_Witness ==
    /\ output.fn = "CenterTime"
    /\ text = <<"A", "B">>
    /\ centerWidth = 10
    /\ output.value = Spaces(4) \o text

\* Position p of s is inside an occurrence of one of the markers.
InMarker(s, p) ==
    \E q \in 1..p : \E k \in 1..Len(Markers) :
        /\ p < q + Len(Markers[k])
        /\ q + Len(Markers[k]) - 1 <= Len(s)
        /\ SubSeq(s, q, q + Len(Markers[k]) - 1) = Markers[k]

\* The display width of s without its markers.
RECURSIVE VisibleWidth(_, _)
VisibleWidth(s, p) ==
    IF p > Len(s) THEN 0
    ELSE (IF InMarker(s, p) THEN 0 ELSE RuneWidth(s[p])) + VisibleWidth(s, p + 1)

\* C23: for every text with escape markers and every width CenterDate
\* takes the padding from the display width of the text without its
\* markers and returns that many blanks followed by the original text,
\* every marker still in its place; a styled text of visible width 2 gets
\* exactly 4 blanks in width 10.
C23_CenterDatePadsByVisibleWidth ==
    output.fn = "CenterDate" =>
        LET visible == VisibleWidth(text, 1)
            pad == AtLeastZero((centerWidth - visible) \div 2)
        IN  /\ Len(output.value) = pad + Len(text)
            /\ \A i \in 1..pad : output.value[i] = " "
            /\ SubSeq(output.value, pad + 1, Len(output.value)) = text
            /\ (visible = 2 /\ centerWidth = 10) => pad = 4

\* CenterDate has returned for a wide rune between the bold marker and
\* the reset marker, in width 10.
C23_Witness ==
    /\ output.fn = "CenterDate"
    /\ text = <<"^", "[", "1", "m", "@", "^", "[", "0", "m">>
    /\ centerWidth = 10
    /\ output.value = Spaces(4) \o text

\* The characters that have a glyph.
Supported ==
    {"0", "1", "2", "3", "4", "5", "6", "7", "8", "9", ":", " ", "A", "M", "P"}

IsSupported(c) == c \in Supported

\* C24: for every input PrintTimeASCII returns exactly 5 rows; every
\* character of the supported set appends its glyph row and one blank to
\* each of the rows, in the order of the input, and every other character
\* adds nothing to any row.
C24_ArtRowsOfSupportedCharacters ==
    output.fn = "PrintTimeASCII" =>
        LET glyphs == SelectSeq(text, IsSupported)
        IN  /\ Len(output.value) = 5
            /\ \A i \in 1..5 :
                   /\ Len(output.value[i]) = 2 * Len(glyphs)
                   /\ \A j \in 1..Len(glyphs) :
                          /\ output.value[i][(2 * j) - 1] = digits[glyphs[j]][i]
                          /\ output.value[i][2 * j] = " "

\* PrintTimeASCII has returned for a text of a letter without a glyph
\* between two characters that have one.
C24_Witness ==
    /\ output.fn = "PrintTimeASCII"
    /\ text = <<"A", "B", ":">>
    /\ output.value[2] = <<" ##  ", " ", "  #  ", " ">>

(***************************************************************************)
(* Properties of what stays on the screen.                                 *)
(***************************************************************************)
\* C25: no ghosting: after every pass the title and the content of every
\* cell, the focus cell and each secondary cell, are those of the slot now
\* at the cell's index (a cell may be empty); no title or content that an
\* earlier pass wrote for another slot is left in a cell, also after a
\* swap.
C25_NoGhosting ==
    PassCompleted =>
        \A j \in 1..Len(timezones) :
            /\ views[j].title.name \in {"", timezones[j]}
            /\ views[j].content.name \in {"", timezones[j]}

(***************************************************************************)
(* Properties of the worker's start and of the timers.                     *)
(***************************************************************************)
\* C26: a pass never shows empty stats text, and before the worker has
\* taken its first sample every pass that shows the stats shows the
\* placeholder for both CPU and MEM, however the start of the worker and
\* the first pass interleave.
C26_PlaceholderBeforeFirstSample ==
    footer.kind = "stats" =>
        /\ footer.cpu # EmptyText
        /\ footer.mem # EmptyText
        /\ sampleNo = 0 => (footer.cpu = Calculating /\ footer.mem = Calculating)

\* C27: a notification is cleared only by its own expiry: for the 3
\* seconds after the latest swap the notification is the message of that
\* swap, whatever the timer of an earlier swap does in between.
C27_OnlyOwnExpiryClears ==
    lastSwap # <<>> => notification = SwappedMsg(lastSwap[1], lastSwap[2])

(***************************************************************************)
(* Properties of the ordering as a whole.                                  *)
(***************************************************************************)
Count(o, x) == Cardinality({i \in 1..Len(o) : o[i] = x})

IsPermutation(a, b) ==
    /\ Len(a) = Len(b)
    /\ \A x \in Range(a) \cup Range(b) : Count(a, x) = Count(b, x)

\* C28: once the dashboard runs, after every key handler, tick, worker
\* step and timer step the ordering is a permutation of the ordering
\* loaded at startup (the one the file holds): same length, same entries
\* as often; and only the handlers of the keys 1..6 change it, passes, the
\* worker and the timer leave it as it is.
C28_OrderingIsPermutation ==
    /\ [][(mainPc # "boot" /\ mainPc' # "swap1")
             => IsPermutation(timezones', saved')]_vars
    /\ [][(mainPc # "boot" /\ timezones' # timezones)
             => ((\E k \in 1..MaxKey : HandleKey(k)) \/ SwapWrite1)]_vars

\* Two swaps, a sample of the worker and an expired timer later the
\* three-slot ordering differs from the loaded one and is a permutation of
\* it.
C28_Witness ==
    /\ mainPc = "idle"
    /\ swapsLeft = 0
    /\ sampleNo > 0
    /\ timer.state = "fired"
    /\ Len(timezones) = MaxN
    /\ timezones # saved
    /\ IsPermutation(timezones, saved)

(***************************************************************************)
(* Properties of the repeat counts of the progress bar.                    *)
(***************************************************************************)
\* C29: for every time of day and every width, also one the text alone
\* does not fit in, getDayProgressBar does not panic: 0 <= fillWidth <=
\* barWidth, so both counts given to strings.Repeat are non-negative, the
\* track between the brackets has exactly barWidth = max(0, width - 2 -
\* len(timeRemaining)) columns, and fillWidth < barWidth whenever
\* barWidth > 0: the bar is never completely full.
C29_RepeatCountsInRange ==
    Rendered =>
        LET fillWidth == rendered.bar.fill
            barWidth == AtLeastZero(paneSize[1] - 2 - Len(rendered.bar.text))
        IN  /\ 0 <= fillWidth /\ fillWidth <= barWidth
            /\ rendered.bar.blank >= 0
            /\ fillWidth + rendered.bar.blank = barWidth
            /\ barWidth > 0 => fillWidth < barWidth

\* One second before midnight in a view 59 columns wide: 45 of the 46
\* columns of the track are filled.
C29_Witness ==
    /\ Rendered
    /\ now.hour = 23 /\ now.minute = 59 /\ now.second = 59
    /\ paneSize[1] = WideWidth
    /\ rendered.bar.fill = 45
    /\ rendered.bar.blank = 1

\* C30: the ordering is non-empty whenever a pass or a swap runs: runGUI
\* refuses to start with no timezone, and no step of the running dashboard
\* changes the length of the ordering, so slot 0 is in range in every pass
\* and in every swap handler.
C30_OrderingNeverEmpty ==
    /\ [][(RunGUI /\ Len(timezones) = 0) => mainPc' = "done"]_vars
    /\ [][mainPc' \notin {"boot", "done"} => Len(timezones') > 0]_vars
    /\ [][mainPc # "boot" => Len(timezones') = Len(timezones)]_vars
    /\ [][((\E s \in Sizes : Layout(s)) \/ (\E k \in 1..MaxKey : HandleKey(k))
              \/ SwapWrite1)
             => 1 \in DOMAIN timezones]_vars

\* A dashboard of a single timezone has run a pass after a digit key.
C30_Witness ==
    /\ mainPc = "idle"
    /\ Len(timezones) = 1
    /\ sinceSwap > 0
    /\ Len(calls) = 2
    /\ views[1].title.name = timezones[1]

====
